---- MODULE Spec2Model ----
(***************************************************************************)
(* golog: a process-wide leveled logger (src/log.go).                      *)
(*                                                                         *)
(* The model follows the code statement by statement.  Every goroutine is  *)
(* a thread with a program counter and a return stack; the logger's fields *)
(* (_log.level, _log.mu, _log.out, _log.path, _log.buf), the package       *)
(* variable saveTime, the directory holding the log file, the open file    *)
(* handles and the wall clock are the shared state.                        *)
(*                                                                         *)
(* Time is counted in seconds.  File names and messages are sequences of   *)
(* tokens (a token stands for a run of characters), so that prefix tests   *)
(* and the "ends with a line break" test are computed as the code does.    *)
(***************************************************************************)
EXTENDS Integers, Sequences, FiniteSets, TLC

\* ------------------------------------------------------------------------
\* Program constants
\* ------------------------------------------------------------------------
LEVEL_EMERGENCY == 0
LEVEL_ALERT == 1
LEVEL_CRITICAL == 2
LEVEL_ERROR == 3
LEVEL_WARNING == 4
LEVEL_NOTICE == 5
LEVEL_INFO == 6
LEVEL_DEBUG == 7
LEVEL_VERBOSE == 8

\* time.Second, time.Minute, time.Hour in seconds
Second == 1
Minute == 60
Hour == 3600

\* timestr labels a file with now minus ten seconds
BackOff == 10

\* the timer is armed for the boundary plus one second
TimerOffset == 1

\* _log.out values: the nil *os.File, and os.Stderr (handle 1 of the process)
NilFile == 0
Stderr == 1

\* ------------------------------------------------------------------------
\* Bounds of the model
\* ------------------------------------------------------------------------
\* number of logging calls the application makes in one run
MaxCalls == 3
\* number of configuration calls (SetLevel, SetFile, ReOpen, ...) in one run
MaxOps == 2
\* the clock stops advancing after MaxTicks steps
MaxTicks == 2
\* number of rotator loops (accepted EnableRotate calls)
MaxRotators == 2
\* number of retention sweeps running at the same time
MaxSweeps == 2
\* number of logging calls made while the rotators run
RotateCalls == 1

\* the clock advances in steps of TickStep seconds
TickStep == 2 * BackOff
\* the run starts one step before the timer of the first boundary is due
InitClock == 2 * Minute + TimerOffset - TickStep

\* ------------------------------------------------------------------------
\* Inputs
\* ------------------------------------------------------------------------
Writers == {"w1", "w2"}
CfgThreads == {"cfg"}
TimerIds == <<"t1", "t2", "t3">>
RotatorIds == <<"r1", "r2", "r3">>
SweeperIds == <<"s1", "s2", "s3">>
Timers == {TimerIds[i] : i \in 1..MaxRotators}
Rotators == {RotatorIds[i] : i \in 1..MaxRotators}
Sweepers == {SweeperIds[i] : i \in 1..MaxSweeps}
Threads == Writers \cup CfgThreads \cup Timers \cup Rotators \cup Sweepers

\* severities used by the application: Warn, Debug
LogLevels == {LEVEL_WARNING, LEVEL_DEBUG}
\* thresholds passed to SetLevel
SetLevels == {LEVEL_ALERT, LEVEL_DEBUG}
\* formatted messages: a plain one, one ending in a line break, the empty one
Msgs == {<<"m">>, <<"m", "\n">>, <<>>}

VARIABLES
    level,      \* _log.level
    mu,         \* _log.mu: "" when free, else the thread holding it
    out,        \* _log.out: a handle (index of handles), or NilFile
    path,       \* _log.path
    buf,        \* _log.buf
    saveTime,   \* package variable saveTime, seconds
    clock,      \* wall clock, seconds
    dir,        \* the working directory: file name -> inode
    mtime,      \* inode -> modification time
    handles,    \* every *os.File of the process: [ino, open]
    calls,      \* every logging call: [t, lvl, msg, T, now, done, err]
    wlog,       \* every l.out.Write issued: [c, h, ino, data, ok, half]
    th,         \* the threads
    nops,       \* configuration calls made
    removed,    \* every os.Remove that deleted a file
    renames,    \* every os.Rename that moved a file
    nrot,       \* rotator loops started
    fmtIn,      \* the arguments of the call of itoa or formatHeader looked at
    fmtOut      \* the buffer that call appends to

vars == <<level, mu, out, path, buf, saveTime, clock, dir, mtime, handles,
          calls, wlog, th, nops, removed, renames, nrot, fmtIn, fmtOut>>

\* ------------------------------------------------------------------------
\* Helpers
\* ------------------------------------------------------------------------
IdleThread ==
    [pc |-> "idle", stk |-> <<>>, cid |-> 0, arg |-> <<>>, lv |-> 0, f |-> NilFile,
     dl |-> 0, list |-> <<>>, per |-> 0, ren |-> FALSE, name |-> <<>>]

\* return from a function: continue at the label on top of the stack
Return(t) == [th EXCEPT ![t].pc = Head(th[t].stk), ![t].stk = Tail(th[t].stk)]

Goto(t, label) == [th EXCEPT ![t].pc = label]

\* sync.Mutex.Lock is enabled only while the mutex is free: a thread that
\* already holds it blocks as any other would (the mutex is not reentrant)
CanLock == mu = ""

\* ------------------------------------------------------------------------
\* Logger.output
\* ------------------------------------------------------------------------
\* a gate that also drops the calls at the threshold itself
RejectedAtThreshold(lvl, T) == lvl >= T

\* the gate of output: the call is dropped
Rejected(lvl, T) == lvl > T

\* the message needs a line break appended
NeedsNewline(s) == Len(s) > 0 /\ s[Len(s)] # "\n"

\* entry of output(lvl, s) in thread t, returning to label ret, the caller's
\* locals being those of th0: the gate, fmt.Sprintf and time.Now
output(t, lvl, s, ret, th0) ==
    LET T == level
        c == Len(calls) + 1
    IN     IF Rejected(lvl, T)
           THEN /\ calls' = Append(calls, [t |-> t, lvl |-> lvl, msg |-> s, T |-> T,
                                           now |-> clock, done |-> TRUE, err |-> FALSE])
                /\ th' = [th0 EXCEPT ![t].pc = ret, ![t].cid = 0]
           ELSE /\ calls' = Append(calls, [t |-> t, lvl |-> lvl, msg |-> s, T |-> T,
                                           now |-> clock, done |-> FALSE, err |-> FALSE])
                /\ th' = [th0 EXCEPT ![t].pc = "o_lock1", ![t].cid = c,
                                     ![t].stk = <<ret>> \o th0[t].stk]

\* l.mu.Lock() ; defer l.mu.Unlock()
OutputLock1(t) ==
    /\ th[t].pc = "o_lock1"
    /\ CanLock
    /\ mu' = t
    /\ th' = Goto(t, "o_unlock1")
    /\ UNCHANGED <<level, out, path, buf, saveTime, clock, dir, mtime, handles,
                   calls, wlog, nops, removed, renames, nrot, fmtIn, fmtOut>>

\* l.mu.Unlock() ; runtime.Caller(2)
OutputUnlock1(t) ==
    /\ th[t].pc = "o_unlock1"
    /\ mu' = ""
    /\ th' = Goto(t, "o_lock2")
    /\ UNCHANGED <<level, out, path, buf, saveTime, clock, dir, mtime, handles,
                   calls, wlog, nops, removed, renames, nrot, fmtIn, fmtOut>>

\* an output that does not take the lock again after runtime.Caller
OutputLock2Skipped(t) ==
    /\ th[t].pc = "o_lock2"
    /\ th' = Goto(t, "o_reset")
    /\ UNCHANGED <<level, mu, out, path, buf, saveTime, clock, dir, mtime, handles,
                   calls, wlog, nops, removed, renames, nrot, fmtIn, fmtOut>>

\* l.mu.Lock()
OutputLock2(t) ==
    /\ th[t].pc = "o_lock2"
    /\ CanLock
    /\ mu' = t
    /\ th' = Goto(t, "o_reset")
    /\ UNCHANGED <<level, out, path, buf, saveTime, clock, dir, mtime, handles,
                   calls, wlog, nops, removed, renames, nrot, fmtIn, fmtOut>>

\* l.buf = l.buf[:0]
OutputReset(t) ==
    /\ th[t].pc = "o_reset"
    /\ buf' = <<>>
    /\ th' = Goto(t, "o_header")
    /\ UNCHANGED <<level, mu, out, path, saveTime, clock, dir, mtime, handles,
                   calls, wlog, nops, removed, renames, nrot, fmtIn, fmtOut>>

\* the level tags, indexed by the level
levelStrings ==
    <<"[EMERGENCY]", "[ALERT]", "[CRITICAL]", "[ERROR]", "[WARNING]",
      "[NOTICE]", "[INFO]", "[DEBUG]", "[VERB]">>

\* levelStrings[level] is in range
HasTag(lvl) == lvl >= 0 /\ lvl < Len(levelStrings)

\* l.formatHeader(&l.buf, now, level, file, line)
OutputHeader(t) ==
    /\ th[t].pc = "o_header"
    /\ HasTag(calls[th[t].cid].lvl)
    /\ buf' = Append(buf, [k |-> "hdr", c |-> th[t].cid])
    /\ th' = Goto(t, "o_msg")
    /\ UNCHANGED <<level, mu, out, path, saveTime, clock, dir, mtime, handles,
                   calls, wlog, nops, removed, renames, nrot, fmtIn, fmtOut>>

\* formatHeader with a level that has no tag: date and time are appended,
\* levelStrings[level] panics and the deferred l.mu.Unlock() runs; the
\* application recovers and goes on, or the panic goes up to the runtime,
\* which will end the process
OutputPanic(t) ==
    /\ th[t].pc = "o_header"
    /\ ~HasTag(calls[th[t].cid].lvl)
    /\ buf' = Append(buf, [k |-> "date", c |-> th[t].cid])
    /\ mu' = ""
    /\ \E recovered \in BOOLEAN :
          th' = IF recovered
                THEN [th EXCEPT ![t] = IdleThread]
                ELSE [th EXCEPT ![t].pc = "p_exit"]
    /\ UNCHANGED <<level, out, path, saveTime, clock, dir, mtime, handles,
                   calls, wlog, nops, removed, renames, nrot, fmtIn, fmtOut>>

\* the runtime has printed the panic of thread t and exits: the process ends
\* with all its threads, wherever the others have got to in the meantime
PanicExit(t) ==
    /\ th[t].pc = "p_exit"
    /\ th' = [u \in Threads |-> [th[u] EXCEPT !.pc = "dead"]]
    /\ UNCHANGED <<level, mu, out, path, buf, saveTime, clock, dir, mtime, handles,
                   calls, wlog, nops, removed, renames, nrot, fmtIn, fmtOut>>

\* l.buf = append(l.buf, s...) and the line break
OutputMessage(t) ==
    /\ th[t].pc = "o_msg"
    /\ LET c == th[t].cid
           withMsg == Append(buf, [k |-> "msg", c |-> c])
       IN  buf' = IF NeedsNewline(calls[c].msg)
                  THEN Append(withMsg, [k |-> "nl", c |-> c])
                  ELSE withMsg
    /\ th' = Goto(t, "o_write")
    /\ UNCHANGED <<level, mu, out, path, saveTime, clock, dir, mtime, handles,
                   calls, wlog, nops, removed, renames, nrot, fmtIn, fmtOut>>

\* some rotation has renamed the file and has not yet reopened it
HalfRotated == \E r \in Rotators : th[r].ren /\ th[r].pc # "r_spawn"

\* the write reaches the file: the handle is not nil and has not been closed
Writable(h) == h # NilFile /\ handles[h].open

\* _, err := l.out.Write(l.buf)
OutputWrite(t) ==
    /\ th[t].pc = "o_write"
    /\ LET c == th[t].cid
           h == out
           ok == Writable(h)
           ino == IF h = NilFile THEN 0 ELSE handles[h].ino
       IN  /\ wlog' = Append(wlog, [c |-> c, h |-> h, ino |-> ino, data |-> buf,
                                    ok |-> ok, half |-> HalfRotated])
           /\ mtime' = IF ok THEN [mtime EXCEPT ![ino] = clock] ELSE mtime
           /\ calls' = [calls EXCEPT ![c].err = ~ok]
    /\ th' = Goto(t, "o_unlock")
    /\ UNCHANGED <<level, mu, out, path, buf, saveTime, clock, dir, handles,
                   nops, removed, renames, nrot, fmtIn, fmtOut>>

\* a return that unlocks the mutex only when the write succeeded
OutputReturnLocked(t) ==
    /\ th[t].pc = "o_unlock"
    /\ mu' = IF calls[th[t].cid].err THEN mu ELSE ""
    /\ calls' = [calls EXCEPT ![th[t].cid].done = TRUE]
    /\ th' = [th EXCEPT ![t].pc = Head(th[t].stk), ![t].stk = Tail(th[t].stk),
                        ![t].cid = 0]
    /\ UNCHANGED <<level, out, path, buf, saveTime, clock, dir, mtime, handles,
                   wlog, nops, removed, renames, nrot, fmtIn, fmtOut>>

\* return err, running the deferred l.mu.Unlock()
OutputReturn(t) ==
    /\ th[t].pc = "o_unlock"
    /\ mu' = ""
    /\ calls' = [calls EXCEPT ![th[t].cid].done = TRUE]
    /\ th' = [th EXCEPT ![t].pc = Head(th[t].stk), ![t].stk = Tail(th[t].stk),
                        ![t].cid = 0]
    /\ UNCHANGED <<level, out, path, buf, saveTime, clock, dir, mtime, handles,
                   wlog, nops, removed, renames, nrot, fmtIn, fmtOut>>

\* ------------------------------------------------------------------------
\* The application's logging calls
\* ------------------------------------------------------------------------
\* the logging calls made so far, those between their two gates included
Calls == Len(calls) + Cardinality({t \in Threads : th[t].pc = "g_call"})

\* Critical, Error, Warn, Notice, Info, Debug, Verbose
Log(t, lvl, s) ==
    /\ th[t].pc = "idle"
    /\ Calls < MaxCalls
    /\ output(t, lvl, s, "idle", th)
    /\ UNCHANGED <<level, mu, out, path, buf, saveTime, clock, dir, mtime, handles,
                   wlog, nops, removed, renames, nrot, fmtIn, fmtOut>>

\* if level > GetLevel() { return } at the head of Stacktrace, Debug1..4 and
\* Info1..4, in thread t called with level lvl and message s
Gate(t, lvl, s) ==
    /\ th[t].pc = "idle"
    /\ Calls < MaxCalls
    /\ IF Rejected(lvl, level)
       THEN /\ calls' = Append(calls, [t |-> t, lvl |-> lvl, msg |-> s, T |-> level,
                                       now |-> clock, done |-> TRUE, err |-> FALSE])
            /\ UNCHANGED th
       ELSE /\ th' = [th EXCEPT ![t].pc = "g_call", ![t].lv = lvl, ![t].arg = s]
            /\ UNCHANGED calls
    /\ UNCHANGED <<level, mu, out, path, buf, saveTime, clock, dir, mtime, handles,
                   wlog, nops, removed, renames, nrot, fmtIn, fmtOut>>

\* what Sprintf makes of the " --- stack: \n%s" that Stacktrace appends to a
\* format without verbs: the slice v, passed as one argument, takes the %s
\* and the output of debug.Stack() is left over
StackText == <<" --- stack: ", "\n", "[]", "%!(EXTRA []uint8=[...])">>

\* Stacktrace(level, format, v...)
Stacktrace(t, lvl, s) == Gate(t, lvl, s \o StackText)

\* Debug1, Debug2, Debug3, Debug4
Debug1(t, s) == Gate(t, LEVEL_DEBUG, s)

\* Info1, Info2, Info3, Info4
Info1(t, s) == Gate(t, LEVEL_INFO, s)

\* _log.output(level, format, ...) after the gate of Stacktrace, Debug1..4
\* and Info1..4
GatedCall(t) ==
    /\ th[t].pc = "g_call"
    /\ output(t, th[t].lv, th[t].arg, "idle", th)
    /\ UNCHANGED <<level, mu, out, path, buf, saveTime, clock, dir, mtime, handles,
                   wlog, nops, removed, renames, nrot, fmtIn, fmtOut>>


\* ------------------------------------------------------------------------
\* SetLevel
\* ------------------------------------------------------------------------
\* Critical("set log level to %v", level)
SetLevel(t, l) ==
    /\ th[t].pc = "idle"
    /\ nops < MaxOps
    /\ Calls < MaxCalls
    /\ nops' = nops + 1
    /\ output(t, LEVEL_CRITICAL, <<"set log level">>, "sl_store",
              [th EXCEPT ![t].lv = l])
    /\ UNCHANGED <<level, mu, out, path, buf, saveTime, clock, dir, mtime, handles,
                   wlog, removed, renames, nrot, fmtIn, fmtOut>>

\* atomic.StoreInt32(&_log.level, level)
SetLevelStore(t) ==
    /\ th[t].pc = "sl_store"
    /\ level' = th[t].lv
    /\ th' = Goto(t, "idle")
    /\ UNCHANGED <<mu, out, path, buf, saveTime, clock, dir, mtime, handles,
                   calls, wlog, nops, removed, renames, nrot, fmtIn, fmtOut>>

\* ------------------------------------------------------------------------
\* The file system
\* ------------------------------------------------------------------------
\* the log file, a path into a directory that does not exist, no path
LogFile == <<"app.log">>
BadPath == <<"nodir", "/", "x.log">>
NoPath == <<>>
Paths == {LogFile, BadPath}

\* other files of the working directory: .env, app.logger, other
Hidden == <<".", "env">>
Neighbour == <<"app.log", "ger">>
Other == <<"other">>

RECURSIVE LastSlash(_, _)
\* index of the last "/" of p at or before i, 0 when there is none
LastSlash(p, i) == IF i = 0 THEN 0 ELSE IF p[i] = "/" THEN i ELSE LastSlash(p, i - 1)

\* filepath.Base: "." for the empty path
Base(p) ==
    IF p = <<>> THEN <<".">> ELSE SubSeq(p, LastSlash(p, Len(p)) + 1, Len(p))

\* filepath.Dir: "." for a path without a directory
Dir(p) ==
    IF LastSlash(p, Len(p)) = 0 THEN <<".">> ELSE SubSeq(p, 1, LastSlash(p, Len(p)) - 1)

\* the directories that exist: the working directory only
DirExists(d) == d = <<".">>

\* os.OpenFile(p, O_CREATE|O_APPEND|O_RDWR) succeeds
CanOpen(p) == p # <<>> /\ DirExists(Dir(p))

\* strings.Index(s, p) == 0
HasPrefix(s, p) == Len(p) <= Len(s) /\ SubSeq(s, 1, Len(p)) = p

\* the seconds from midnight to the instant the clock counts from, 09:00:00
DayStart == 9 * Hour

\* time.Time.Truncate: down to a multiple of period since the zero time, which
\* is a midnight
Truncate(now, period) == ((now + DayStart) \div period) * period - DayStart

\* the minutes from 08:59 to 09:06 of 2015-05-14, as timestr renders them; the
\* clock counts from 09:00:00
MinuteStamps ==
    <<"201505140859", "201505140900", "201505140901", "201505140902",
      "201505140903", "201505140904", "201505140905", "201505140906">>
DayStamps == <<"20150513", "20150514", "20150515">>

\* the decimal digits
Digits == <<"0", "1", "2", "3", "4", "5", "6", "7", "8", "9">>

\* %02d of a number below 100
TwoDigits(n) == Digits[(n \div 10) + 1] \o Digits[(n % 10) + 1]

\* timestr, called at time now
timestr(period, now) ==
    LET t == now - BackOff
        date == DayStamps[((t + DayStart) \div (24 * Hour)) + 2]
        sod == (t + DayStart) % (24 * Hour)
        hh == TwoDigits(sod \div Hour)
        mm == TwoDigits((sod % Hour) \div Minute)
        ss == TwoDigits(sod % Minute)
    IN  IF period = Minute THEN date \o hh \o mm
        ELSE IF period = Hour THEN date \o hh
        ELSE IF period = 24 * Hour THEN date
        ELSE date \o hh \o mm \o ss

\* fmt.Sprintf("%s.%s", path, stamp)
RotatedName(p, stamp) == p \o <<".", stamp>>

\* the bytes of file names, in ascending order
CharOrder == "./0123456789abcdefghijklmnopqrstuvwxyz"

\* the place of each one-byte string in that order
CharCode ==
    [c \in {SubSeq(CharOrder, i, i) : i \in 1..Len(CharOrder)} |->
        CHOOSE i \in 1..Len(CharOrder) : SubSeq(CharOrder, i, i) = c]

\* the bytes of the string w, as their places in the order
StringBytes(w) == [i \in 1..Len(w) |-> CharCode[SubSeq(w, i, i)]]

RECURSIVE NameBytes(_)
\* the bytes of the file name n
NameBytes(n) ==
    IF n = <<>> THEN <<>>
    ELSE StringBytes(Head(n)) \o NameBytes(Tail(n))

RECURSIVE BytesLess(_, _, _)
\* a < b from byte i on, all bytes before i being equal: byte by byte, a
\* proper prefix first
BytesLess(a, b, i) ==
    IF i > Len(b) THEN FALSE
    ELSE IF i > Len(a) THEN TRUE
    ELSE IF a[i] # b[i] THEN a[i] < b[i]
    ELSE BytesLess(a, b, i + 1)

RECURSIVE InsertName(_, _)
\* the list lst of names with their bytes, sorted, with entry e put in its place
InsertName(e, lst) ==
    IF lst = <<>> THEN <<e>>
    ELSE IF BytesLess(e.bytes, Head(lst).bytes, 1) THEN <<e>> \o lst
    ELSE <<Head(lst)>> \o InsertName(e, Tail(lst))

RECURSIVE SortNames(_)
\* the names of the set S with their bytes, sorted by name
SortNames(S) ==
    IF S = {} THEN <<>>
    ELSE LET n == CHOOSE x \in S : TRUE
         IN  InsertName([name |-> n, bytes |-> NameBytes(n)], SortNames(S \ {n}))

\* ioutil.ReadDir of the working directory: name and modification time of
\* every entry, sorted by name
ReadDir ==
    LET sorted == SortNames(DOMAIN dir)
    IN  [i \in 1..Len(sorted) |->
           [name |-> sorted[i].name, mtime |-> mtime[dir[sorted[i].name]]]]

\* the directory with name n bound to inode i
Bind(d, n, i) == [x \in DOMAIN d \cup {n} |-> IF x = n THEN i ELSE d[x]]

\* the directory without name n
Unbind(d, n) == [x \in DOMAIN d \ {n} |-> d[x]]

\* ------------------------------------------------------------------------
\* SetFile
\* ------------------------------------------------------------------------
\* f, err := os.OpenFile(path, ...) ; if err != nil { Error(...) }
SetFileOpen(t) ==
    /\ th[t].pc = "sf_open"
    /\ LET p == th[t].arg
       IN  IF CanOpen(p)
           THEN /\ IF p \in DOMAIN dir
                   THEN /\ handles' = Append(handles, [ino |-> dir[p], open |-> TRUE])
                        /\ UNCHANGED <<dir, mtime>>
                   ELSE /\ mtime' = Append(mtime, clock)
                        /\ dir' = Bind(dir, p, Len(mtime) + 1)
                        /\ handles' = Append(handles, [ino |-> Len(mtime) + 1, open |-> TRUE])
                /\ th' = [th EXCEPT ![t].pc = "sf_assign", ![t].f = Len(handles) + 1]
                /\ UNCHANGED calls
           ELSE /\ output(t, LEVEL_ERROR, <<"error on SetLogFile">>, "sf_assign",
                          [th EXCEPT ![t].f = NilFile])
                /\ UNCHANGED <<dir, mtime, handles>>
    /\ UNCHANGED <<level, mu, out, path, buf, saveTime, clock, wlog, nops,
                   removed, renames, nrot, fmtIn, fmtOut>>

\* _log.out = f
SetFileAssign(t) ==
    /\ th[t].pc = "sf_assign"
    /\ out' = th[t].f
    /\ th' = Goto(t, "sf_path")
    /\ UNCHANGED <<level, mu, path, buf, saveTime, clock, dir, mtime, handles,
                   calls, wlog, nops, removed, renames, nrot, fmtIn, fmtOut>>

\* _log.path = path
SetFilePath(t) ==
    /\ th[t].pc = "sf_path"
    /\ path' = th[t].arg
    /\ th' = Return(t)
    /\ UNCHANGED <<level, mu, out, buf, saveTime, clock, dir, mtime, handles,
                   calls, wlog, nops, removed, renames, nrot, fmtIn, fmtOut>>

\* a call of SetFile(p) by the application
SetFile(t, p) ==
    /\ th[t].pc = "idle"
    /\ nops < MaxOps
    /\ nops' = nops + 1
    /\ th' = [th EXCEPT ![t].pc = "sf_open", ![t].arg = p, ![t].stk = <<"idle">>]
    /\ UNCHANGED <<level, mu, out, path, buf, saveTime, clock, dir, mtime, handles,
                   calls, wlog, removed, renames, nrot, fmtIn, fmtOut>>

\* ------------------------------------------------------------------------
\* ReOpen
\* ------------------------------------------------------------------------
\* if _log.path == "" { return }, in thread t which continues at ret, its
\* locals being those of th0
ReOpenEntry(t, ret, th0) ==
    th' = IF path = NoPath
          THEN [th0 EXCEPT ![t].pc = ret]
          ELSE [th0 EXCEPT ![t].pc = "ro_lock", ![t].stk = <<ret>> \o th0[t].stk]

\* _log.mu.Lock() ; defer _log.mu.Unlock()
ReOpenLock(t) ==
    /\ th[t].pc = "ro_lock"
    /\ CanLock
    /\ mu' = t
    /\ th' = Goto(t, "ro_close")
    /\ UNCHANGED <<level, out, path, buf, saveTime, clock, dir, mtime, handles,
                   calls, wlog, nops, removed, renames, nrot, fmtIn, fmtOut>>

\* _log.out.Close()
ReOpenClose(t) ==
    /\ th[t].pc = "ro_close"
    /\ handles' = IF out = NilFile THEN handles
                  ELSE [handles EXCEPT ![out].open = FALSE]
    /\ th' = Goto(t, "ro_call")
    /\ UNCHANGED <<level, mu, out, path, buf, saveTime, clock, dir, mtime,
                   calls, wlog, nops, removed, renames, nrot, fmtIn, fmtOut>>

\* SetFile(_log.path)
ReOpenCall(t) ==
    /\ th[t].pc = "ro_call"
    /\ th' = [th EXCEPT ![t].pc = "sf_open", ![t].arg = path,
                        ![t].stk = <<"ro_unlock">> \o th[t].stk]
    /\ UNCHANGED <<level, mu, out, path, buf, saveTime, clock, dir, mtime, handles,
                   calls, wlog, nops, removed, renames, nrot, fmtIn, fmtOut>>

\* the deferred _log.mu.Unlock()
ReOpenUnlock(t) ==
    /\ th[t].pc = "ro_unlock"
    /\ mu' = ""
    /\ th' = Return(t)
    /\ UNCHANGED <<level, out, path, buf, saveTime, clock, dir, mtime, handles,
                   calls, wlog, nops, removed, renames, nrot, fmtIn, fmtOut>>

\* a call of ReOpen by the application
ReOpen(t) ==
    /\ th[t].pc = "idle"
    /\ nops < MaxOps
    /\ nops' = nops + 1
    /\ ReOpenEntry(t, "idle", th)
    /\ UNCHANGED <<level, mu, out, path, buf, saveTime, clock, dir, mtime, handles,
                   calls, wlog, removed, renames, nrot, fmtIn, fmtOut>>

\* ------------------------------------------------------------------------
\* SetLogSaveTime
\* ------------------------------------------------------------------------
SetLogSaveTime(t, d) ==
    /\ th[t].pc = "idle"
    /\ nops < MaxOps
    /\ nops' = nops + 1
    /\ saveTime' = d
    /\ UNCHANGED <<level, mu, out, path, buf, clock, dir, mtime, handles,
                   calls, wlog, th, removed, renames, nrot, fmtIn, fmtOut>>

\* ------------------------------------------------------------------------
\* EnableRotate
\* ------------------------------------------------------------------------
\* nextRotateTime := now.Truncate(period).Add(period).Add(time.Second)
NextRotateTime(now, period) == Truncate(now, period) + period + TimerOffset

\* a test that accepts every positive period
AnyPeriod(period) == period > 0

\* the periods EnableRotate accepts
ValidPeriod(period) == period = Minute \/ period = Hour \/ period = 24 * Hour

\* a call of EnableRotate(period) by the application: a bad period is
\* reported, a good one starts the timer goroutine and the rotation goroutine
EnableRotate(t, period) ==
    /\ th[t].pc = "idle"
    /\ nops < MaxOps
    /\ nops' = nops + 1
    /\ IF ~ValidPeriod(period)
       THEN /\ output(t, LEVEL_ERROR, <<"bad rotate peirod">>, "idle", th)
            /\ UNCHANGED nrot
       ELSE /\ nrot < MaxRotators
            /\ nrot' = nrot + 1
            /\ th' = [th EXCEPT ![TimerIds[nrot + 1]].pc = "t_arm",
                                ![TimerIds[nrot + 1]].per = period,
                                ![RotatorIds[nrot + 1]].pc = "r_recv",
                                ![RotatorIds[nrot + 1]].per = period]
            /\ UNCHANGED calls
    /\ UNCHANGED <<level, mu, out, path, buf, saveTime, clock, dir, mtime, handles,
                   wlog, removed, renames, fmtIn, fmtOut>>

\* now := time.Now() ; nextRotateTime := ... ; timer := time.NewTimer(...)
TimerArm(i) ==
    LET t == TimerIds[i]
    IN  /\ th[t].pc = "t_arm"
        /\ th' = [th EXCEPT ![t].pc = "t_wait",
                            ![t].dl = NextRotateTime(clock, th[t].per)]
        /\ UNCHANGED <<level, mu, out, path, buf, saveTime, clock, dir, mtime, handles,
                       calls, wlog, nops, removed, renames, nrot, fmtIn, fmtOut>>

\* <-timer.C ; ch <- true, received by the rotation goroutine at <-ch
TimerFire(i) ==
    LET t == TimerIds[i]
        r == RotatorIds[i]
    IN  /\ th[t].pc = "t_wait"
        /\ clock >= th[t].dl
        /\ th[r].pc = "r_recv"
        /\ th' = [th EXCEPT ![t].pc = "t_arm",
                            ![r].pc = "r_name", ![r].dl = th[t].dl]
        /\ UNCHANGED <<level, mu, out, path, buf, saveTime, clock, dir, mtime, handles,
                       calls, wlog, nops, removed, renames, nrot, fmtIn, fmtOut>>

\* filename := fmt.Sprintf("%s.%s", _log.path, timestr(period))
RotateName(r) ==
    /\ th[r].pc = "r_name"
    /\ th' = [th EXCEPT ![r].pc = "r_rename",
                        ![r].arg = RotatedName(path, timestr(th[r].per, clock))]
    /\ UNCHANGED <<level, mu, out, path, buf, saveTime, clock, dir, mtime, handles,
                   calls, wlog, nops, removed, renames, nrot, fmtIn, fmtOut>>

\* os.Rename(_log.path, filename)
RotateRename(r) ==
    /\ th[r].pc = "r_rename"
    /\ LET filename == th[r].arg
       IN  IF path \in DOMAIN dir /\ DirExists(Dir(filename))
           THEN /\ dir' = Bind(Unbind(dir, path), filename, dir[path])
                /\ renames' = Append(renames,
                       [by |-> r, ino |-> dir[path], to |-> filename,
                        stamp |-> filename[Len(filename)],
                        at |-> clock, due |-> th[r].dl - TimerOffset,
                        replaced |-> IF filename \in DOMAIN dir THEN dir[filename] ELSE 0])
                /\ th' = [th EXCEPT ![r].pc = "r_reopen", ![r].ren = TRUE]
           ELSE /\ th' = [th EXCEPT ![r].pc = "r_reopen", ![r].ren = FALSE]
                /\ UNCHANGED <<dir, renames>>
    /\ UNCHANGED <<level, mu, out, path, buf, saveTime, clock, mtime, handles,
                   calls, wlog, nops, removed, nrot, fmtIn, fmtOut>>

\* ReOpen(_log.path)
RotateReOpen(r) ==
    /\ th[r].pc = "r_reopen"
    /\ ReOpenEntry(r, "r_spawn", th)
    /\ UNCHANGED <<level, mu, out, path, buf, saveTime, clock, dir, mtime, handles,
                   calls, wlog, nops, removed, renames, nrot, fmtIn, fmtOut>>

\* go deleteExpiredLog(period)
RotateSpawn(r, s) ==
    /\ th[r].pc = "r_spawn"
    /\ th[s].pc = "idle"
    /\ th' = [th EXCEPT ![r].pc = "r_recv", ![r].ren = FALSE,
                        ![s].pc = "d_dir", ![s].per = th[r].per]
    /\ UNCHANGED <<level, mu, out, path, buf, saveTime, clock, dir, mtime, handles,
                   calls, wlog, nops, removed, renames, nrot, fmtIn, fmtOut>>

\* ------------------------------------------------------------------------
\* deleteExpiredLog
\* ------------------------------------------------------------------------
\* saveTime != 0*time.Second && strings.Index(fmt.Sprintf("%s.", fileName),
\* logName) == 0, with save the value read from saveTime
Selected(fileName, logName, save) ==
    /\ save # 0
    /\ HasPrefix(fileName \o <<".">>, logName)

\* time.Now().Sub(mtime) >= saveTime, with save the value read from saveTime
Aged(mt, save, now) == now - mt >= save

\* dirName := filepath.Dir(_log.path)
DeleteDir(s) ==
    /\ th[s].pc = "d_dir"
    /\ th' = [th EXCEPT ![s].pc = "d_base", ![s].arg = Dir(path)]
    /\ UNCHANGED <<level, mu, out, path, buf, saveTime, clock, dir, mtime, handles,
                   calls, wlog, nops, removed, renames, nrot, fmtIn, fmtOut>>

\* logName := filepath.Base(_log.path)
DeleteBase(s) ==
    /\ th[s].pc = "d_base"
    /\ th' = [th EXCEPT ![s].pc = "d_read", ![s].name = Base(path)]
    /\ UNCHANGED <<level, mu, out, path, buf, saveTime, clock, dir, mtime, handles,
                   calls, wlog, nops, removed, renames, nrot, fmtIn, fmtOut>>

\* fileInfos, err := ioutil.ReadDir(dirName) ; if err != nil { Warn(...) }
DeleteRead(s) ==
    /\ th[s].pc = "d_read"
    /\ IF DirExists(th[s].arg)
       THEN /\ th' = [th EXCEPT ![s].pc = "d_loop", ![s].list = ReadDir]
            /\ UNCHANGED calls
       ELSE output(s, LEVEL_WARNING, <<"read dir fail">>, "d_loop",
                   [th EXCEPT ![s].list = <<>>])
    /\ UNCHANGED <<level, mu, out, path, buf, saveTime, clock, dir, mtime, handles,
                   wlog, nops, removed, renames, nrot, fmtIn, fmtOut>>

\* the file named n is the one the logger writes to
IsActive(n) ==
    /\ n \in DOMAIN dir
    /\ out # NilFile
    /\ handles[out].open
    /\ handles[out].ino = dir[n]

\* the head of the loop over fileInfos and the first two conjuncts of its
\* test, which read saveTime for the first time; or the end of the loop
DeleteStep(s) ==
    /\ th[s].pc = "d_loop"
    /\ IF th[s].list = <<>>
       THEN th' = [th EXCEPT ![s] = IdleThread]
       ELSE IF Selected(Head(th[s].list).name, th[s].name, saveTime)
       THEN th' = Goto(s, "d_age")
       ELSE th' = [th EXCEPT ![s].list = Tail(th[s].list)]
    /\ UNCHANGED <<level, mu, out, path, buf, saveTime, clock, dir, mtime, handles,
                   calls, wlog, nops, removed, renames, nrot, fmtIn, fmtOut>>

\* the third conjunct of the test, which reads the clock and reads saveTime
\* again
DeleteAge(s) ==
    /\ th[s].pc = "d_age"
    /\ IF Aged(Head(th[s].list).mtime, saveTime, clock)
       THEN th' = [th EXCEPT ![s].pc = "d_remove", ![s].lv = saveTime]
       ELSE th' = [th EXCEPT ![s].pc = "d_loop", ![s].list = Tail(th[s].list)]
    /\ UNCHANGED <<level, mu, out, path, buf, saveTime, clock, dir, mtime, handles,
                   calls, wlog, nops, removed, renames, nrot, fmtIn, fmtOut>>

\* os.Remove(fmt.Sprintf("%s/%s", dirName, fileName)); the duration the age
\* was compared with is recorded as save
DeleteRemove(s) ==
    /\ th[s].pc = "d_remove"
    /\ LET e == Head(th[s].list)
       IN  IF e.name \in DOMAIN dir
           THEN /\ dir' = Unbind(dir, e.name)
                /\ removed' = removed \cup
                      {[name |-> e.name, ino |-> dir[e.name], at |-> clock,
                        seen |-> e.mtime, mtime |-> mtime[dir[e.name]],
                        save |-> th[s].lv, base |-> th[s].name,
                        active |-> IsActive(e.name)]}
           ELSE UNCHANGED <<dir, removed>>
    /\ th' = [th EXCEPT ![s].pc = "d_loop", ![s].list = Tail(th[s].list), ![s].lv = 0]
    /\ UNCHANGED <<level, mu, out, path, buf, saveTime, clock, mtime, handles,
                   calls, wlog, nops, renames, nrot, fmtIn, fmtOut>>

\* ------------------------------------------------------------------------
\* The clock
\* ------------------------------------------------------------------------
Tick ==
    /\ clock + TickStep <= InitClock + MaxTicks * TickStep
    /\ clock' = clock + TickStep
    /\ UNCHANGED <<level, mu, out, path, buf, saveTime, dir, mtime, handles,
                   calls, wlog, th, nops, removed, renames, nrot, fmtIn, fmtOut>>

\* ------------------------------------------------------------------------
\* formatHeader and itoa
\* ------------------------------------------------------------------------
\* the text of a header is a sequence of characters; a level tag is kept whole

\* _log.microseconds
microseconds == TRUE

RECURSIVE itoaLoop(_, _, _)
\* for ; u > 0 || wid > 0; u /= 10 { bp-- ; wid-- ; b[bp] = byte(u%10) + '0' }
itoaLoop(u, wid, b) ==
    IF u > 0 \/ wid > 0
    THEN itoaLoop(u \div 10, wid - 1, <<Digits[(u % 10) + 1]>> \o b)
    ELSE b

RECURSIVE itoaCut(_, _, _)
\* a loop that stops at the width when one is given
itoaCut(u, wid, b) ==
    IF wid > 0 \/ (wid + Len(b) <= 0 /\ u > 0)
    THEN itoaCut(u \div 10, wid - 1, <<Digits[(u % 10) + 1]>> \o b)
    ELSE b

\* an itoa that writes exactly wid digits when wid is positive
itoaFixed(b, i, wid) ==
    IF i = 0 /\ wid <= 1 THEN Append(b, "0") ELSE b \o itoaCut(i, wid, <<>>)

\* itoa(buf, i, wid) for i >= 0, where uint(i) is i
itoa(b, i, wid) ==
    IF i = 0 /\ wid <= 1 THEN Append(b, "0") ELSE b \o itoaLoop(i, wid, <<>>)

RECURSIVE SlashFrom(_, _)
\* for i := len(file) - 1; i > 0; i-- { if file[i] == '/' { ... break } }:
\* the position, counted from 1, where the loop breaks, searching down from
\* position i and never looking at position 1; 0 when it runs to its end
SlashFrom(file, i) ==
    IF i <= 1 THEN 0 ELSE IF file[i] = "/" THEN i ELSE SlashFrom(file, i - 1)

\* short := file ; ... short = file[i+1:]
short(file) ==
    LET i == SlashFrom(file, Len(file))
    IN  IF i = 0 THEN file ELSE SubSeq(file, i + 1, Len(file))

\* l.formatHeader(buf, t, level, file, line), t given by t.Date(), t.Clock()
\* and t.Nanosecond()/1e3
formatHeader(b, t, lvl, file, line) ==
    LET b1 == Append(itoa(b, t.year, 4), "-")
        b2 == Append(itoa(b1, t.month, 2), "-")
        b3 == Append(itoa(b2, t.day, 2), " ")
        b4 == Append(itoa(b3, t.hour, 2), ":")
        b5 == Append(itoa(b4, t.min, 2), ":")
        b6 == itoa(b5, t.sec, 2)
        b7 == IF microseconds THEN itoa(Append(b6, "."), t.usec, 6) ELSE b6
        b8 == Append(Append(Append(b7, " "), levelStrings[lvl + 1]), " ")
        b9 == Append(b8 \o short(file), ":")
    IN  itoa(b9, line, -1) \o <<":", " ">>

\* the arguments given to itoa
ItoaValues == {0, 5, 9, 10, 59, 100, 2015, 12345, 999999}
Widths == {-1, 0, 1, 2, 4, 6}

\* the arguments given to formatHeader
Times ==
    [year : {1970, 2015, 9999}, month : {1, 12}, day : {1, 31}, hour : {0, 23},
     min : {0, 59}, sec : {0, 59}, usec : {0, 23132, 999999}]
Files ==
    {<<"x", ".", "g", "o">>, <<"a", "/", "b", "/", "x", ".", "g", "o">>,
     <<"/", "x", ".", "g", "o">>, <<"/", "a", "/", "x">>, <<"?", "?", "?">>}
Lines == {0, 7, 120}
HeaderLevels == {LEVEL_EMERGENCY, LEVEL_DEBUG}

\* no call of itoa or formatHeader is being looked at
NoFormat ==
    [op |-> "none", i |-> 0, wid |-> 0,
     t |-> [year |-> 0, month |-> 0, day |-> 0, hour |-> 0, min |-> 0, sec |-> 0,
            usec |-> 0],
     level |-> 0, file |-> <<>>, line |-> 0]

\* a call of itoa, of formatHeader
ItoaInputs ==
    {[NoFormat EXCEPT !.op = "itoa", !.i = i, !.wid = w] : i \in ItoaValues, w \in Widths}
HeaderInputs ==
    {[NoFormat EXCEPT !.op = "formatHeader", !.t = t, !.level = l, !.file = f,
                      !.line = n] :
        t \in Times, l \in HeaderLevels, f \in Files, n \in Lines}

\* the state outside the formatter
logVars == <<level, mu, out, path, buf, saveTime, clock, dir, mtime, handles,
             calls, wlog, th, nops, removed, renames, nrot>>

\* itoa(&buf, i, wid) on an empty buffer
ItoaCall ==
    /\ fmtIn.op = "itoa"
    /\ fmtOut = <<>>
    /\ fmtOut' = itoa(<<>>, fmtIn.i, fmtIn.wid)
    /\ UNCHANGED <<logVars, fmtIn>>

\* l.formatHeader(&l.buf, now, level, file, line) on the buffer reset by l.buf[:0]
FormatHeaderCall ==
    /\ fmtIn.op = "formatHeader"
    /\ fmtOut = <<>>
    /\ fmtOut' = formatHeader(<<>>, fmtIn.t, fmtIn.level, fmtIn.file, fmtIn.line)
    /\ UNCHANGED <<logVars, fmtIn>>

\* ------------------------------------------------------------------------
\* Initial states
\* ------------------------------------------------------------------------
\* retention durations passed to SetLogSaveTime
SaveTimes == {0, TickStep, 2 * Minute}
\* periods passed to EnableRotate
Periods == {Minute, Second}

\* the package as initialised: var _log = &Logger{...}, saveTime = 0
Init ==
    /\ level = LEVEL_NOTICE
    /\ mu = ""
    /\ out = Stderr
    /\ path = NoPath
    /\ buf = <<>>
    /\ saveTime = 0
    /\ clock = InitClock
    /\ dir = (Hidden :> 2) @@ (Neighbour :> 3) @@ (Other :> 4)
    /\ mtime = <<0, 0, 0, 0>>
    /\ handles = <<[ino |-> 1, open |-> TRUE]>>
    /\ calls = <<>>
    /\ wlog = <<>>
    /\ th = [t \in Threads |-> IdleThread]
    /\ nops = 0
    /\ removed = {}
    /\ renames = <<>>
    /\ nrot = 0
    /\ fmtIn = NoFormat
    /\ fmtOut = <<>>

\* the state after SetFile("app.log"), SetLogSaveTime(d) for some d of saves
\* and n calls of EnableRotate(time.Minute) whose timers are armed, in a
\* directory that holds app.logger, the application having made ops of its
\* configuration calls
RotatingState(n, saves, ops) ==
    /\ level = LEVEL_NOTICE
    /\ mu = ""
    /\ out = Stderr + 1
    /\ path = LogFile
    /\ buf = <<>>
    /\ saveTime \in saves
    /\ clock = InitClock
    /\ dir = (Neighbour :> 2) @@ (LogFile :> 3)
    /\ mtime = <<0, 0, InitClock>>
    /\ handles = <<[ino |-> 1, open |-> TRUE], [ino |-> 3, open |-> TRUE]>>
    /\ calls = <<>>
    /\ wlog = <<>>
    /\ nrot = n
    /\ th = [t \in Threads |->
               IF \E i \in 1..n : t = TimerIds[i]
               THEN [IdleThread EXCEPT !.pc = "t_wait", !.per = Minute,
                                       !.dl = NextRotateTime(InitClock, Minute)]
               ELSE IF \E i \in 1..n : t = RotatorIds[i]
               THEN [IdleThread EXCEPT !.pc = "r_recv", !.per = Minute]
               ELSE IdleThread]
    /\ nops = ops
    /\ removed = {}
    /\ renames = <<>>
    /\ fmtIn = NoFormat
    /\ fmtOut = <<>>

\* one call of EnableRotate, any retention duration
InitRotating == RotatingState(1, SaveTimes, MaxOps)

\* as many calls of EnableRotate as there can be, retention as initialised
InitRotatingTwice == RotatingState(MaxRotators, {0}, MaxOps)

\* one call of EnableRotate, any retention duration, and one more
\* configuration call to come
InitRetain == RotatingState(1, SaveTimes, MaxOps - 1)

\* the state after SetFile("app.log"), with the threshold as initialised or
\* after SetLevel(LEVEL_ALERT), in a directory that holds app.logger
InitFile ==
    /\ level \in {LEVEL_NOTICE, LEVEL_ALERT}
    /\ mu = ""
    /\ out = Stderr + 1
    /\ path = LogFile
    /\ buf = <<>>
    /\ saveTime = 0
    /\ clock = InitClock
    /\ dir = (Neighbour :> 2) @@ (LogFile :> 3)
    /\ mtime = <<0, 0, InitClock>>
    /\ handles = <<[ino |-> 1, open |-> TRUE], [ino |-> 3, open |-> TRUE]>>
    /\ calls = <<>>
    /\ wlog = <<>>
    /\ th = [t \in Threads |-> IdleThread]
    /\ nops = 0
    /\ removed = {}
    /\ renames = <<>>
    /\ nrot = 0
    /\ fmtIn = NoFormat
    /\ fmtOut = <<>>

\* the state after SetLogSaveTime(d) and n calls of EnableRotate(time.Minute)
\* with no SetFile: the sink is os.Stderr and the path is empty, in a
\* directory that holds .env, app.logger and other
InitNoPath ==
    /\ level = LEVEL_NOTICE
    /\ mu = ""
    /\ out = Stderr
    /\ path = NoPath
    /\ buf = <<>>
    /\ saveTime \in SaveTimes
    /\ clock = InitClock
    /\ dir = (Hidden :> 2) @@ (Neighbour :> 3) @@ (Other :> 4)
    /\ mtime = <<0, 0, 0, 0>>
    /\ handles = <<[ino |-> 1, open |-> TRUE]>>
    /\ calls = <<>>
    /\ wlog = <<>>
    /\ nrot \in 1..MaxRotators
    /\ th = [t \in Threads |->
               IF \E i \in 1..nrot : t = TimerIds[i]
               THEN [IdleThread EXCEPT !.pc = "t_wait", !.per = Minute,
                                       !.dl = NextRotateTime(InitClock, Minute)]
               ELSE IF \E i \in 1..nrot : t = RotatorIds[i]
               THEN [IdleThread EXCEPT !.pc = "r_recv", !.per = Minute]
               ELSE IdleThread]
    /\ nops = MaxOps
    /\ removed = {}
    /\ renames = <<>>
    /\ fmtIn = NoFormat
    /\ fmtOut = <<>>

\* the package as initialised, and a call of itoa or of formatHeader with its
\* arguments
InitFormat ==
    /\ level = LEVEL_NOTICE
    /\ mu = ""
    /\ out = Stderr
    /\ path = NoPath
    /\ buf = <<>>
    /\ saveTime = 0
    /\ clock = InitClock
    /\ dir = (Hidden :> 2) @@ (Neighbour :> 3) @@ (Other :> 4)
    /\ mtime = <<0, 0, 0, 0>>
    /\ handles = <<[ino |-> 1, open |-> TRUE]>>
    /\ calls = <<>>
    /\ wlog = <<>>
    /\ th = [t \in Threads |-> IdleThread]
    /\ nops = 0
    /\ removed = {}
    /\ renames = <<>>
    /\ nrot = 0
    /\ fmtIn \in ItoaInputs \cup HeaderInputs
    /\ fmtOut = <<>>

\* ------------------------------------------------------------------------
\* Specifications
\* ------------------------------------------------------------------------
\* the steps of Logger.output
Output(t) ==
    \/ OutputLock1(t)
    \/ OutputUnlock1(t)
    \/ OutputLock2(t)
    \/ OutputReset(t)
    \/ OutputHeader(t)
    \/ OutputMessage(t)
    \/ OutputWrite(t)
    \/ OutputReturn(t)

\* logging calls racing with SetLevel
NextLog ==
    \/ \E t \in Writers, lvl \in LogLevels, s \in Msgs : Log(t, lvl, s)
    \/ \E t \in Writers \cup CfgThreads : Output(t)
    \/ \E l \in SetLevels : SetLevel("cfg", l)
    \/ SetLevelStore("cfg")

SpecLog == Init /\ [][NextLog]_vars

\* the levels passed to Stacktrace, and to SetLevel while it is in use
StackLevels == {-1, LEVEL_WARNING, LEVEL_VERBOSE + 1}
WrapLevels == {LEVEL_ALERT, LEVEL_VERBOSE + 1}

\* the gated logging calls
Gated(t) ==
    \/ \E lvl \in StackLevels : Stacktrace(t, lvl, <<"m">>)
    \/ Debug1(t, <<"m">>)
    \/ Info1(t, <<"m">>)
    \/ GatedCall(t)

\* logging calls of every kind racing with SetLevel
NextWrap ==
    \/ \E t \in Writers : Log(t, LEVEL_WARNING, <<"m">>)
    \/ \E t \in Writers : Gated(t)
    \/ \E t \in Writers \cup CfgThreads : Output(t)
    \/ \E t \in Writers : OutputPanic(t)
    \/ \E t \in Writers : PanicExit(t)
    \/ \E l \in WrapLevels : SetLevel("cfg", l)
    \/ SetLevelStore("cfg")

SpecWrap == Init /\ [][NextWrap]_vars

\* the steps of SetFile and ReOpen
Sink(t) ==
    \/ SetFileOpen(t)
    \/ SetFileAssign(t)
    \/ SetFilePath(t)
    \/ ReOpenLock(t)
    \/ ReOpenClose(t)
    \/ ReOpenCall(t)
    \/ ReOpenUnlock(t)

\* logging calls racing with SetFile and ReOpen
NextSink ==
    \/ \E t \in Writers, lvl \in LogLevels : Log(t, lvl, <<"m">>)
    \/ \E t \in Writers \cup CfgThreads : Output(t)
    \/ \E p \in Paths : SetFile("cfg", p)
    \/ ReOpen("cfg")
    \/ Sink("cfg")

SpecSink == Init /\ [][NextSink]_vars

\* the steps of the timer and rotation goroutines of EnableRotate
Rotate ==
    \/ \E i \in 1..MaxRotators : TimerArm(i)
    \/ \E i \in 1..MaxRotators : TimerFire(i)
    \/ \E r \in Rotators : RotateName(r)
    \/ \E r \in Rotators : RotateRename(r)
    \/ \E r \in Rotators : RotateReOpen(r)
    \/ \E r \in Rotators, s \in Sweepers : RotateSpawn(r, s)

\* the steps of deleteExpiredLog up to the first two conjuncts of its test,
\* which are all its steps while saveTime is zero
Listing ==
    \/ \E s \in Sweepers : DeleteDir(s)
    \/ \E s \in Sweepers : DeleteBase(s)
    \/ \E s \in Sweepers : DeleteRead(s)
    \/ \E s \in Sweepers : DeleteStep(s)

\* the steps of deleteExpiredLog
Sweep ==
    \/ Listing
    \/ \E s \in Sweepers : DeleteAge(s)
    \/ \E s \in Sweepers : DeleteRemove(s)

\* logging calls racing with rotation and retention, as time passes
NextRotate ==
    \/ \E lvl \in LogLevels : Len(calls) < RotateCalls /\ Log("w1", lvl, <<"m">>)
    \/ \E t \in Writers \cup Rotators \cup Sweepers : Output(t)
    \/ \E r \in Rotators : Sink(r)
    \/ Rotate
    \/ Sweep
    \/ Tick

SpecRotate == InitRotating /\ [][NextRotate]_vars

\* the same with the retention duration zero throughout: the sweeps never
\* get beyond the first two conjuncts of their test
NextRotateZero ==
    \/ \E lvl \in LogLevels : Len(calls) < RotateCalls /\ Log("w1", lvl, <<"m">>)
    \/ \E t \in Writers \cup Rotators \cup Sweepers : Output(t)
    \/ \E r \in Rotators : Sink(r)
    \/ Rotate
    \/ Listing
    \/ Tick

SpecRotateTwice == InitRotatingTwice /\ [][NextRotateZero]_vars

\* rotation and retention racing with a call of SetLogSaveTime
NextRetain ==
    \/ NextRotate
    \/ \E d \in SaveTimes : SetLogSaveTime("cfg", d)

SpecRetain == InitRetain /\ [][NextRetain]_vars

\* calls of EnableRotate with good and bad periods, and what they start
NextEnable ==
    \/ \E period \in Periods : EnableRotate("cfg", period)
    \/ \E t \in CfgThreads \cup Rotators \cup Sweepers : Output(t)
    \/ \E r \in Rotators : Sink(r)
    \/ Rotate
    \/ Listing
    \/ Tick

SpecEnable == InitFile /\ [][NextEnable]_vars

\* rotation and retention with no path configured, as time passes
NextNoPath ==
    \/ \E lvl \in LogLevels : Len(calls) < RotateCalls /\ Log("w1", lvl, <<"m">>)
    \/ \E t \in Writers : Output(t)
    \/ Rotate
    \/ Sweep
    \/ Tick

SpecNoPath == InitNoPath /\ [][NextNoPath]_vars

\* logging calls of two threads as time passes
NextClock ==
    \/ \E t \in Writers : Log(t, LEVEL_WARNING, <<"m">>)
    \/ \E t \in Writers : Output(t)
    \/ Tick

SpecClock == Init /\ [][NextClock]_vars

\* calls of itoa and formatHeader
NextFormat ==
    \/ ItoaCall
    \/ FormatHeaderCall

SpecFormat == InitFormat /\ [][NextFormat]_vars

\* the whole program
Next ==
    \/ \E t \in Writers, lvl \in LogLevels, s \in Msgs : Log(t, lvl, s)
    \/ \E t \in Writers : Gated(t)
    \/ \E t \in Threads : Output(t)
    \/ \E t \in Writers : OutputPanic(t)
    \/ \E t \in Writers : PanicExit(t)
    \/ \E l \in SetLevels : SetLevel("cfg", l)
    \/ SetLevelStore("cfg")
    \/ \E p \in Paths : SetFile("cfg", p)
    \/ ReOpen("cfg")
    \/ \E d \in SaveTimes : SetLogSaveTime("cfg", d)
    \/ \E period \in Periods : EnableRotate("cfg", period)
    \/ \E t \in CfgThreads \cup Rotators : Sink(t)
    \/ Rotate
    \/ Sweep
    \/ Tick

Spec == Init /\ [][Next]_vars

\* ------------------------------------------------------------------------
\* Properties
\* ------------------------------------------------------------------------
\* the number of writes call c has issued
Writes(c) == Cardinality({i \in DOMAIN wlog : wlog[i].c = c})

\* the pieces output appends for call c
Line(c) ==
    <<[k |-> "hdr", c |-> c], [k |-> "msg", c |-> c]>>
    \o (IF Len(calls[c].msg) > 0 /\ calls[c].msg[Len(calls[c].msg)] # "\n"
        THEN <<[k |-> "nl", c |-> c]>> ELSE <<>>)

\* the labels at which a thread waits for the sink lock
LockWaits == {"o_lock1", "o_lock2", "ro_lock"}

\* the labels of output between its second Lock and its return
InCritical == {"o_reset", "o_header", "o_msg", "o_write", "o_unlock"}

\* C1 (level gating): a logging call of any kind (plain or gated a second
\* time) at severity L whose deciding gate read threshold T issues one write
\* when L <= T and none when L > T, and the step of a dropped call leaves the
\* buffer, the writes issued and the files as they were.  A call at a level
\* outside the scale of the nine severities never returns once it is accepted
\* and writes nothing.
C1_LevelGating ==
    [][/\ \A c \in DOMAIN calls' :
             /\ calls'[c].lvl > calls'[c].T => Writes(c)' = 0
             /\ ~HasTag(calls'[c].lvl) => Writes(c)' = 0
             /\ calls'[c].done => (Writes(c)' = 1 <=> calls'[c].lvl <= calls'[c].T)
             /\ Writes(c)' <= 1
       /\ (Len(calls') > Len(calls) /\ calls'[Len(calls')].lvl > calls'[Len(calls')].T)
             => UNCHANGED <<buf, wlog, mtime, dir, handles, out, mu>>]_vars

\* threshold NOTICE: a DEBUG call has returned without a write and a WARNING
\* call has returned after its one write
C1_Witness ==
    /\ \E c \in DOMAIN calls :
          /\ calls[c].lvl = LEVEL_DEBUG /\ calls[c].T = LEVEL_NOTICE
          /\ calls[c].done /\ Writes(c) = 0
    /\ \E c \in DOMAIN calls :
          /\ calls[c].lvl = LEVEL_WARNING /\ calls[c].T = LEVEL_NOTICE
          /\ calls[c].done /\ Writes(c) = 1

\* C2 (write atomicity): every write carries the header and then the message
\* of the call that issued it, the buffer never holds pieces of two calls,
\* every accepted call that returned has written exactly once, no call has
\* written twice and no dropped call has written, and a thread between the
\* reset of the buffer and its return holds the lock.
C2_WriteAtomicity ==
    /\ \A i \in DOMAIN wlog : wlog[i].data = Line(wlog[i].c)
    /\ \A i, j \in DOMAIN buf : buf[i].c = buf[j].c
    /\ \A c \in DOMAIN calls :
          /\ Writes(c) <= 1
          /\ Writes(c) = 1 => calls[c].lvl <= calls[c].T
          /\ (calls[c].done /\ calls[c].lvl <= calls[c].T) => Writes(c) = 1
    /\ \A t \in Threads : th[t].pc \in InCritical => mu = t
    /\ \A t \in Threads :
          th[t].pc \in {"o_msg", "o_write"}
             => /\ buf # <<>>
                /\ buf[1] = [k |-> "hdr", c |-> th[t].cid]

\* two accepted calls of two threads overlap: one has written and is about to
\* return while the other waits for the lock, and two lines have been written
C2_Witness ==
    /\ Len(wlog) = 2
    /\ wlog[1].ok /\ wlog[2].ok
    /\ calls[wlog[1].c].t # calls[wlog[2].c].t
    /\ \E t, u \in Writers : th[t].pc = "o_unlock" /\ th[u].pc = "o_lock2"

\* C3 (no indefinite blocking): a thread waiting for the sink lock gets it,
\* so the lock is never held by a thread that itself waits for it.
C3_NoIndefiniteBlocking ==
    \A t \in Threads :
       th[t].pc \in LockWaits => (mu = "" \/ th[mu].pc \notin LockWaits)

\* C4 (rotation preserves content): a rename of the active file replaces no
\* file, and every line written to a file that was rotated is found under the
\* name it was rotated to, unless retention has removed that file.
C4_RotationPreservesContent ==
    \A i \in DOMAIN renames :
       /\ renames[i].replaced = 0
       /\ \A w \in DOMAIN wlog :
             (wlog[w].ok /\ wlog[w].ino = renames[i].ino)
                => \/ \E rm \in removed : rm.ino = renames[i].ino
                   \/ \E n \in DOMAIN dir : dir[n] = renames[i].ino

\* C5 (rotation is one critical section): no write is issued while a rotation
\* has renamed the file and has not yet reopened it.
C5_RotationOneCriticalSection ==
    \A w \in DOMAIN wlog : ~wlog[w].half

\* C6 (lock discipline): a thread about to assign _log.out or _log.path holds
\* the sink lock.
C6_SinkMutationsLocked ==
    \A t \in Threads : th[t].pc \in {"sf_assign", "sf_path"} => mu = t

\* C7 (single open sink): at most one file opened by the logger is open.
C7_SingleOpenSink ==
    Cardinality({h \in DOMAIN handles : h # Stderr /\ handles[h].open}) <= 1

\* C8 (failed open leaves the sink unchanged): the two assignments that end a
\* SetFile whose open failed leave _log.out and _log.path as they were.
C8_FailedOpenKeepsSink ==
    [][\A t \in Threads :
          (/\ th[t].pc \in {"sf_assign", "sf_path"}
           /\ th[t].f = NilFile
           /\ th'[t].pc # th[t].pc)
             => (out' = out /\ path' = path)]_vars

\* C9 (retention selectivity): every file a sweep removed had a name that
\* begins with the base name followed by a dot, and an age at or beyond the
\* retention duration.
C9_RetentionSelectivity ==
    \A rm \in removed :
       /\ HasPrefix(rm.name, rm.base \o <<".">>)
       /\ rm.at - rm.seen >= rm.save

\* C10 (retention never deletes the active sink): no sweep removed the file
\* that was open as the sink at that moment.
C10_ActiveSinkNeverDeleted ==
    \A rm \in removed : ~rm.active

\* C11 (zero retention keeps everything): no sweep removed a file on a test
\* that found the retention duration zero, whether zero was its value from
\* the start or was set by SetLogSaveTime(0).
C11_ZeroRetentionKeepsAll ==
    \A rm \in removed : rm.save # 0

\* the calls of Error("bad rotate peirod") made so far
BadPeriodCalls == {c \in DOMAIN calls : calls[c].msg = <<"bad rotate peirod">>}

\* the timer and rotation goroutines that have been started
Started == {t \in Timers \cup Rotators : th[t].pc # "idle"}

\* C12 (unsupported rotation period): every timer loop and rotation loop runs
\* with a period of one minute, one hour or one day, and there is one pair of
\* them for each call of EnableRotate that did not report a bad period; a
\* rejected call is reported at error severity, and neither that call nor the
\* logging of its error changes the sink handle, the path, the threshold, the
\* retention duration, the directory, or any timer, rotation or sweep.
C12_BadPeriodRejected ==
    [][/\ \A t \in Started' : th'[t].per \in {Minute, Hour, 24 * Hour}
       /\ Cardinality(Started') = 2 * (nops' - Cardinality(BadPeriodCalls'))
       /\ \A c \in BadPeriodCalls' :
             /\ calls'[c].lvl = LEVEL_ERROR
             /\ calls'[c].done => (Writes(c)' = 1 <=> LEVEL_ERROR <= calls'[c].T)
       /\ th'["cfg"] # th["cfg"]
             => /\ UNCHANGED <<out, path, level, saveTime, dir, handles,
                               renames, removed, nrot>>
                /\ \A u \in Timers \cup Rotators \cup Sweepers : th'[u] = th[u]]_vars

\* the only call of EnableRotate had a bad period and its error line has been
\* written; the next minute has begun and nothing has been started or renamed
C12_Witness ==
    /\ nops = 1
    /\ \E c \in BadPeriodCalls : calls[c].done /\ Writes(c) = 1
    /\ clock >= NextRotateTime(InitClock, Minute)
    /\ Started = {}
    /\ renames = <<>>
    /\ path = LogFile /\ out = Stderr + 1

\* the calls of Critical made by SetLevel so far
AuditCalls == {c \in DOMAIN calls : calls[c].msg = <<"set log level">>}

\* C13 (threshold change is audited): every call of SetLevel that has
\* returned from its audit call has written one audit line, whatever the
\* threshold was, and once SetLevel has returned the threshold is the one it
\* was given.
C13_ThresholdChangeAudited ==
    /\ \A c \in AuditCalls : calls[c].done => Writes(c) = 1
    /\ (nops > 0 /\ th["cfg"].pc = "idle") => level = th["cfg"].lv

\* C14 (write failure handling): a call whose write failed has made exactly
\* one write attempt, no call writes more than once, and the step on which
\* such a call returns releases the sink lock and hands the failure back, the
\* thread going on at its caller.
C14_WriteFailureReturned ==
    [][\A c \in DOMAIN calls :
          /\ Writes(c)' <= 1
          /\ calls'[c].err => (Writes(c)' = 1 /\ ~wlog'[CHOOSE i \in DOMAIN wlog' : wlog'[i].c = c].ok)
          /\ (calls'[c].done /\ ~calls[c].done /\ calls[c].err)
                => /\ mu = calls[c].t /\ mu' = ""
                   /\ calls'[c].err
                   /\ th'[calls[c].t].pc = Head(th[calls[c].t].stk)]_vars

\* the sink handle is nil after a failed open: two logging calls have each
\* made one failed write and returned, and the lock is free
C14_Witness ==
    /\ out = NilFile
    /\ mu = ""
    /\ \E c, d \in DOMAIN calls :
          /\ c < d
          /\ calls[c].err /\ calls[c].done /\ Writes(c) = 1
          /\ calls[d].err /\ calls[d].done /\ Writes(d) = 1

\* message s ends with a line break
EndsWithLineBreak(s) == Len(s) > 0 /\ s[Len(s)] = "\n"

\* C15 (line termination): every write carries the header and the message of
\* its call, followed by a line break exactly when the message does not end
\* with one, the empty message included, so every write ends a line.
C15_LineTermination ==
    \A i \in DOMAIN wlog :
       LET c == wlog[i].c
       IN  wlog[i].data =
              <<[k |-> "hdr", c |-> c], [k |-> "msg", c |-> c]>>
              \o (IF EndsWithLineBreak(calls[c].msg)
                  THEN <<>> ELSE <<[k |-> "nl", c |-> c]>>)

\* the value of a decimal digit character
DigitValue(ch) == CHOOSE d \in 0..9 : Digits[d + 1] = ch

\* s consists of decimal digits
IsDecimal(s) == \A k \in DOMAIN s : \E d \in 0..9 : Digits[d + 1] = s[k]

RECURSIVE ParseDec(_)
\* the number a sequence of decimal digits denotes
ParseDec(s) ==
    IF s = <<>> THEN 0
    ELSE 10 * ParseDec(SubSeq(s, 1, Len(s) - 1)) + DigitValue(s[Len(s)])

RECURSIVE NumDigits(_)
\* the number of digits of the plain decimal of i
NumDigits(i) == IF i < 10 THEN 1 ELSE 1 + NumDigits(i \div 10)

\* the field of text s between positions a and b is the decimal of v
Field(s, a, b, v) ==
    /\ b <= Len(s)
    /\ IsDecimal(SubSeq(s, a, b))
    /\ ParseDec(SubSeq(s, a, b)) = v

\* C16 (header round-trip): itoa(i, w) appends decimal digits that denote i,
\* as many as the plain decimal of i has and at least w, so it pads with "0"
\* and never truncates; and the header of a timestamp with a four-digit year
\* has year, month, day, hour, minute, second and microsecond in fields of
\* widths 4, 2, 2, 2, 2, 2, 6 that parse back to the same values, and the
\* line number as its plain decimal.
C16_HeaderRoundTrip ==
    fmtOut # <<>> =>
       /\ fmtIn.op = "itoa" =>
             /\ IsDecimal(fmtOut)
             /\ ParseDec(fmtOut) = fmtIn.i
             /\ Len(fmtOut) = IF fmtIn.wid > NumDigits(fmtIn.i)
                              THEN fmtIn.wid ELSE NumDigits(fmtIn.i)
       /\ fmtIn.op = "formatHeader" =>
             LET t == fmtIn.t
                 n == Len(short(fmtIn.file))
                 d == NumDigits(fmtIn.line)
             IN  /\ Field(fmtOut, 1, 4, t.year) /\ fmtOut[5] = "-"
                 /\ Field(fmtOut, 6, 7, t.month) /\ fmtOut[8] = "-"
                 /\ Field(fmtOut, 9, 10, t.day) /\ fmtOut[11] = " "
                 /\ Field(fmtOut, 12, 13, t.hour) /\ fmtOut[14] = ":"
                 /\ Field(fmtOut, 15, 16, t.min) /\ fmtOut[17] = ":"
                 /\ Field(fmtOut, 18, 19, t.sec) /\ fmtOut[20] = "."
                 /\ Field(fmtOut, 21, 26, t.usec) /\ fmtOut[27] = " "
                 /\ fmtOut[28] = levelStrings[fmtIn.level + 1] /\ fmtOut[29] = " "
                 /\ fmtOut[30 + n] = ":"
                 /\ Field(fmtOut, 31 + n, 30 + n + d, fmtIn.line)
                 /\ Len(fmtOut) = 32 + n + d
                 /\ SubSeq(fmtOut, 31 + n + d, 32 + n + d) = <<":", " ">>

\* the header of 2015-01-31 23:59:00.023132, line 120, has been rendered
\* with the month, the second and the microsecond padded
C16_Witness ==
    /\ fmtIn.op = "formatHeader"
    /\ fmtIn.t = [year |-> 2015, month |-> 1, day |-> 31, hour |-> 23, min |-> 59,
                  sec |-> 0, usec |-> 23132]
    /\ fmtIn.line = 120
    /\ fmtIn.file = <<"x", ".", "g", "o">>
    /\ fmtOut = <<"2", "0", "1", "5", "-", "0", "1", "-", "3", "1", " ",
                  "2", "3", ":", "5", "9", ":", "0", "0", ".",
                  "0", "2", "3", "1", "3", "2", " ", levelStrings[fmtIn.level + 1], " ",
                  "x", ".", "g", "o", ":", "1", "2", "0", ":", " ">>

\* the substring of file after its last "/", the whole of file when it has none
AfterLastSlash(file) == SubSeq(file, LastSlash(file, Len(file)) + 1, Len(file))

\* C18 (basename truncation): the file part of a rendered header, between the
\* level tag and the line number, is the substring of the caller file string
\* after its last "/", wherever that is, and the whole string when it has none.
C18_BasenameTruncation ==
    (fmtIn.op = "formatHeader" /\ fmtOut # <<>>) =>
       LET base == AfterLastSlash(fmtIn.file)
       IN  /\ SubSeq(fmtOut, 30, 29 + Len(base)) = base
           /\ fmtOut[30 + Len(base)] = ":"
           /\ Len(fmtOut) = 32 + Len(base) + NumDigits(fmtIn.line)

\* the suffix of the minute that ends at the boundary due
CoveredMinute(due) == MinuteStamps[((due - Minute) \div Minute) + 2]

\* C17 (rotation suffix labels the covered period): every rename made by a
\* rotation carries the suffix of the period that ended at the boundary whose
\* timer triggered it, however late the rotation step ran.
C17_SuffixLabelsCoveredPeriod ==
    \A i \in DOMAIN renames : renames[i].stamp = CoveredMinute(renames[i].due)

\* C19 (no path configured, no file touched): while the path is empty and the
\* sink is os.Stderr, rotations and sweeps have renamed no file, have left
\* the sink handle in place and have removed no file: the directory holds the
\* files it held at the start.
C19_NoPathTouchesNoFile ==
    (path = NoPath) =>
       /\ renames = <<>>
       /\ out = Stderr /\ handles[Stderr].open
       /\ removed = {}
       /\ dir = (Hidden :> 2) @@ (Neighbour :> 3) @@ (Other :> 4)

\* C20 (timestamp order in the sink): the lines of the sink carry timestamps
\* in non-decreasing order: of two writes, the earlier one belongs to a call
\* whose timestamp was taken no later.
C20_TimestampOrder ==
    \A i, j \in DOMAIN wlog :
       (i < j /\ wlog[i].ok /\ wlog[j].ok /\ wlog[i].ino = wlog[j].ino)
          => calls[wlog[i].c].now <= calls[wlog[j].c].now

====
